---- MODULE Spec2Model ----
(***************************************************************************)
(* State-machine model of lab_5_scrapper/scrapper.py (Config, Crawler,     *)
(* main) and lab_6_pipeline/pipeline.py (CorpusManager, the pipelines,     *)
(* main).  Both programs meet at one place of the file system, ASSETS_PATH.*)
(* Strings are sequences of symbols, so that concatenation, str(), prefix  *)
(* tests and glob patterns are computed and not assumed.                   *)
(***************************************************************************)
EXTENDS Integers, Sequences, FiniteSets, TLC

\* ---------------------------------------------------------------- bounds
MaxId == 2           \* ids 1..MaxId may name files of the initial directory
MaxNumArticles == 2  \* largest total_articles a configuration asks for
MaxSeeds == 1        \* largest number of seed urls
MaxAnchors == 2      \* largest number of <a> elements on one page
MaxCalls == 2        \* largest number of find_articles() calls on a crawler

VARIABLES
    path,        \* ASSETS_PATH: [kind, entries]; entries maps a name to its size
    pc,          \* position of scrapper.main
    num,         \* Config._num_articles
    seeds,       \* len(Config._seed_urls)
    urls,        \* Crawler.urls
    calls,       \* number of find_articles() calls made on the crawler
    ids,         \* article_id of every article stored by scrapper.main, in order
    cm,          \* CorpusManager construction: "new", "ok" (instance), "raised"
    err,         \* the exception that left CorpusManager.__init__, or "none"
    storage,     \* CorpusManager._storage
    runs,        \* the pipeline variants whose run() has returned
    visited,     \* article ids processed by run(), in order
    written      \* output files written by run(): [id, kind]

vars == <<path, pc, num, seeds, urls, calls, ids, cm, err, storage, runs, visited, written>>

\* ------------------------------------------------------------ strings
Range(s) == {s[i] : i \in 1..Len(s)}

StartsWith(s, pre) == Len(s) >= Len(pre) /\ SubSeq(s, 1, Len(pre)) = pre

EndsWith(s, suf) ==
    Len(s) >= Len(suf) /\ SubSeq(s, Len(s) - Len(suf) + 1, Len(s)) = suf

Digit(d) ==
    CASE d = 0 -> "0" [] d = 1 -> "1" [] d = 2 -> "2" [] d = 3 -> "3" [] d = 4 -> "4"
      [] d = 5 -> "5" [] d = 6 -> "6" [] d = 7 -> "7" [] d = 8 -> "8" [] d = 9 -> "9"

\* str(i) for a non-negative int: its decimal digits, no leading zero
RECURSIVE Str(_)
Str(i) == IF i < 10 THEN <<Digit(i)>> ELSE Str(i \div 10) \o <<Digit(i % 10)>>

\* the symbols that hold a '.' character
DotSymbols == {"_raw.txt", "_meta.json", ".txt"}

RawSuffix == <<"_raw.txt">>
MetaSuffix == <<"_meta.json">>

RawName(i) == Str(i) \o RawSuffix
MetaName(i) == Str(i) \o MetaSuffix

\* ------------------------------------------------------- file system
Missing == [kind |-> "missing", entries |-> <<>>]
RegularFile == [kind |-> "file", entries |-> <<>>]
Dir(entries) == [kind |-> "dir", entries |-> entries]

\* a validator that skips the exists() test
ExistsUnchecked(p) == TRUE

Exists(p) == p.kind # "missing"
IsDir(p) == p.kind = "dir"

\* glob patterns: [star |-> TRUE, tail] is '*' + tail, [star |-> FALSE, tail] is
\* the literal tail, and PatAnyDot is '*.*'
PatAnyDot == [star |-> TRUE, dot |-> TRUE, tail |-> <<>>]
PatSuffix(suf) == [star |-> TRUE, dot |-> FALSE, tail |-> suf]
PatExact(name) == [star |-> FALSE, dot |-> FALSE, tail |-> name]

\* a matcher that reads '*.*' as '*'
MatchDotAsStar(pat, name) ==
    IF pat.dot THEN TRUE
    ELSE IF pat.star THEN EndsWith(name, pat.tail)
    ELSE name = pat.tail

Match(pat, name) ==
    IF pat.dot THEN \E k \in 1..Len(name) : name[k] \in DotSymbols
    ELSE IF pat.star THEN EndsWith(name, pat.tail)
    ELSE name = pat.tail

Glob(p, pat) ==
    IF IsDir(p) THEN {n \in DOMAIN p.entries : Match(pat, n)} ELSE {}

Size(p, name) == p.entries[name]

\* ------------------------------------------------- crawler (scrapper.py)
NUM_ARTICLES_UPPER_LIMIT == 150

\* _validate_config_content, lines 104-107: TRUE when total_articles is rejected
NumArticlesRejected(n) == n < 1 \/ n > NUM_ARTICLES_UPPER_LIMIT

Host == <<"https://ptzgovorit.ru">>
NewsPrefix == <<"https://ptzgovorit.ru", "/news/">>

\* the href attributes a page may carry, and an <a> without href
Hrefs == {<<"/news/", "a">>, <<"/news/", "b">>, <<"/about">>}
Anchors == {[hasHref |-> TRUE, href |-> h] : h \in Hrefs}
                \cup {[hasHref |-> FALSE, href |-> <<>>]}
AnchorLists == UNION {[1..k -> Anchors] : k \in 0..MaxAnchors}
\* a response; the body of a response that is not 200 is never read
Pages == [status : {200}, anchors : AnchorLists] \cup {[status |-> 404, anchors |-> <<>>]}

\* _extract_url: 'https://ptzgovorit.ru' + href
ExtractUrl(a) == Host \o a.href

\* a guard that is off by one
LimitReachedLate(us, n) == Len(us) > n

\* line 202: the guard that ends find_articles
LimitReached(us, n) == Len(us) >= n

\* line 206: the url is new and is a news url
Accepted(url, us) == url \notin Range(us) /\ StartsWith(url, NewsPrefix)

\* lines 201-209: the loop over the <a> elements of one page, from element k;
\* ret is TRUE when line 203 returned from find_articles
RECURSIVE ScanAnchors(_, _, _, _)
ScanAnchors(us, anchors, k, n) ==
    IF k > Len(anchors) THEN [urls |-> us, ret |-> FALSE]
    ELSE IF LimitReached(us, n) THEN [urls |-> us, ret |-> TRUE]
    ELSE IF ~anchors[k].hasHref THEN ScanAnchors(us, anchors, k + 1, n)
    ELSE IF Accepted(ExtractUrl(anchors[k]), us)
         THEN ScanAnchors(Append(us, ExtractUrl(anchors[k])), anchors, k + 1, n)
    ELSE ScanAnchors(us, anchors, k + 1, n)

\* lines 198-209: the loop over the seed urls, from seed j; pages[j] is the
\* response to the request for seed j
RECURSIVE FindArticlesFrom(_, _, _, _)
FindArticlesFrom(us, pages, j, n) ==
    IF j > Len(pages) THEN us
    ELSE IF pages[j].status # 200 THEN FindArticlesFrom(us, pages, j + 1, n)
    ELSE LET r == ScanAnchors(us, pages[j].anchors, 1, n)
         IN  IF r.ret THEN r.urls ELSE FindArticlesFrom(r.urls, pages, j + 1, n)

\* prepare_environment(ASSETS_PATH); shutil.rmtree raises on a regular file
PrepareEnvironment ==
    /\ pc = "start" /\ cm = "new"
    /\ IF path.kind = "file"
       THEN pc' = "failed" /\ path' = path
       ELSE pc' = "config" /\ path' = Dir(<<>>)
    /\ UNCHANGED <<num, seeds, urls, calls, ids, cm, err, storage, runs, visited, written>>

\* Config(path_to_config=CRAWLER_CONFIG_PATH) and Crawler(config=configuration)
LoadConfig(n, s) ==
    /\ pc = "config"
    /\ IF NumArticlesRejected(n)
       THEN pc' = "failed" /\ UNCHANGED <<num, seeds, urls>>
       ELSE pc' = "crawl" /\ num' = n /\ seeds' = s /\ urls' = <<>>
    /\ UNCHANGED <<path, calls, ids, cm, err, storage, runs, visited, written>>

\* crawler.find_articles(), the whole call
FindArticles(pages) ==
    /\ pc = "crawl"
    /\ calls < MaxCalls
    /\ calls' = calls + 1
    /\ urls' = FindArticlesFrom(urls, pages, 1, num)
    /\ UNCHANGED <<path, pc, num, seeds, ids, cm, err, storage, runs, visited, written>>

\* main, line 295: the for loop over enumerate(crawler.urls) starts
BeginStore ==
    /\ pc = "crawl"
    /\ calls >= 1
    /\ pc' = "store"
    /\ UNCHANGED <<path, num, seeds, urls, calls, ids, cm, err, storage, runs, visited, written>>

\* enumerate(crawler.urls): the index paired with the k-th url (k = 1, 2, ...)
EnumerateIndex(k) == k - 1

\* to_raw(article) and to_meta(article) of core_utils.article.io
ToRaw(entries, id, size) ==
    [x \in DOMAIN entries \cup {RawName(id)} |->
        IF x = RawName(id) THEN size ELSE entries[x]]
ToMeta(entries, id) ==
    [x \in DOMAIN entries \cup {MetaName(id)} |->
        IF x = MetaName(id) THEN 1 ELSE entries[x]]

\* main, lines 296-299: one iteration; size is 0 when the page has no text
StoreArticle(size) ==
    /\ pc = "store"
    /\ Len(ids) < Len(urls)
    /\ LET id == EnumerateIndex(Len(ids) + 1)
       IN  /\ ids' = Append(ids, id)
           /\ path' = Dir(ToMeta(ToRaw(path.entries, id, size), id))
    /\ UNCHANGED <<pc, num, seeds, urls, calls, cm, err, storage, runs, visited, written>>

\* main, line 297: parser.parse() raises (no text block, no title, a bad date)
ParseRaises ==
    /\ pc = "store"
    /\ Len(ids) < Len(urls)
    /\ pc' = "failed"
    /\ UNCHANGED <<path, num, seeds, urls, calls, ids, cm, err, storage, runs, visited, written>>

\* main returns
MainReturn ==
    /\ pc = "store"
    /\ Len(ids) = Len(urls)
    /\ pc' = "done"
    /\ UNCHANGED <<path, num, seeds, urls, calls, ids, cm, err, storage, runs, visited, written>>

\* ------------------------------------------- CorpusManager (pipeline.py)
\* lines 50-51: the two listings differ in length
\* a validator that never compares the two listings
CountsNeverDiffer(raw_paths, meta_paths) == FALSE

CountsDiffer(raw_paths, meta_paths) == Cardinality(raw_paths) # Cardinality(meta_paths)

\* a loop body that never looks at st_size
PairRaisesNoSize(p, i) ==
    Glob(p, PatExact(RawName(i))) = {} \/ Glob(p, PatExact(MetaName(i))) = {}

\* lines 53-58: the body of the loop for one i; TRUE when it raises
PairRaises(p, i) ==
    LET raw == Glob(p, PatExact(RawName(i)))
        meta == Glob(p, PatExact(MetaName(i)))
    IN  IF raw = {} \/ meta = {} THEN TRUE
        ELSE \E r \in raw : \E m \in meta : Size(p, r) = 0 \/ Size(p, m) = 0

\* lines 48-58: the consistency part of _validate_dataset
ConsistencyError(p) ==
    LET raw_paths == Glob(p, PatSuffix(RawSuffix))
        meta_paths == Glob(p, PatSuffix(MetaSuffix))
    IN  IF CountsDiffer(raw_paths, meta_paths) THEN "InconsistentDatasetError"
        ELSE IF \E i \in 1..Cardinality(raw_paths) : PairRaises(p, i)
             THEN "InconsistentDatasetError"
        ELSE "none"

\* a validator that tests is_dir() after the listings
ValidateDatasetDirLast(p) ==
    IF ~Exists(p) THEN "FileNotFoundError"
    ELSE IF Cardinality(Glob(p, PatAnyDot)) = 0 THEN "EmptyDirectoryError"
    ELSE IF ConsistencyError(p) # "none" THEN ConsistencyError(p)
    ELSE IF ~IsDir(p) THEN "NotADirectoryError"
    ELSE "none"

\* _validate_dataset: the exception it raises, "none" when it returns
ValidateDataset(p) ==
    IF ~Exists(p) THEN "FileNotFoundError"
    ELSE IF ~IsDir(p) THEN "NotADirectoryError"
    ELSE IF Cardinality(Glob(p, PatAnyDot)) = 0 THEN "EmptyDirectoryError"
    ELSE ConsistencyError(p)

\* a constructor that registers the raw files before it validates
InitStorageScanned(p) ==
    [i \in 1..Cardinality(Glob(p, PatSuffix(RawSuffix))) |-> "article"]

\* line 35: self._storage = {}
InitStorage(p) == <<>>

\* _scan_dataset: a docstring only, and nothing calls it
ScanDataset(st, p) == st

\* get_articles: a docstring only, so the call returns None
GetArticles(st) == [none |-> TRUE, keys |-> {}]

\* CorpusManager(path_to_raw_txt_data=ASSETS_PATH): __init__ as one step
CorpusManagerInit ==
    /\ cm = "new"
    /\ pc \in {"start", "done", "failed"}
    /\ storage' = InitStorage(path)
    /\ err' = ValidateDataset(path)
    /\ cm' = IF ValidateDataset(path) = "none" THEN "ok" ELSE "raised"
    /\ UNCHANGED <<path, pc, num, seeds, urls, calls, ids, runs, visited, written>>

\* MorphologicalAnalysisPipeline.run / AdvancedMorphologicalAnalysisPipeline.run:
\* both bodies are a docstring only; the articles visited and the files written
RunVisits(st) == <<>>
RunWrites(st) == {}

Variants == {"base", "advanced"}

Run(v) ==
    /\ cm = "ok"
    /\ v \notin runs
    /\ runs' = runs \cup {v}
    /\ visited' = visited \o RunVisits(storage)
    /\ written' = written \cup RunWrites(storage)
    /\ UNCHANGED <<path, pc, num, seeds, urls, calls, ids, cm, err, storage>>

\* ------------------------------------------------------ specification
OddStem == <<"0", "1">>
Notes == <<"notes", ".txt">>
Readme == <<"README">>

\* names whose file may be empty in the initial directory
IdNames == {RawName(i) : i \in 1..MaxId} \cup {MetaName(i) : i \in 1..MaxId}
\* names whose file, when present, is not empty
OtherNames == {OddStem \o RawSuffix, OddStem \o MetaSuffix, Notes, Readme}

InitialDirs ==
    {Dir(f) : f \in UNION {{g \in [S -> {0, 1}] : \A x \in S \cap OtherNames : g[x] = 1} :
                              S \in SUBSET (IdNames \cup OtherNames)}}

Init ==
    /\ path \in {Missing, RegularFile} \cup InitialDirs
    /\ pc = "start"
    /\ num = 0
    /\ seeds = 0
    /\ urls = <<>>
    /\ calls = 0
    /\ ids = <<>>
    /\ cm = "new"
    /\ err = "none"
    /\ storage = <<>>
    /\ runs = {}
    /\ visited = <<>>
    /\ written = {}

Next ==
    \/ PrepareEnvironment
    \/ \E n \in 0..MaxNumArticles : \E s \in 0..MaxSeeds : LoadConfig(n, s)
    \/ \E pages \in [1..seeds -> Pages] : FindArticles(pages)
    \/ BeginStore
    \/ \E size \in {0, 1} : StoreArticle(size)
    \/ ParseRaises
    \/ MainReturn
    \/ CorpusManagerInit
    \/ \E v \in Variants : Run(v)

Spec == Init /\ [][Next]_vars

\* --------------------------------------------------------- properties
\* what the directory holds, read off the state without the validator
Names == IF path.kind = "dir" THEN DOMAIN path.entries ELSE {}
RawFiles == {x \in Names : EndsWith(x, RawSuffix)}
MetaFiles == {x \in Names : EndsWith(x, MetaSuffix)}
NRaw == Cardinality(RawFiles)
HasDot(x) == \E k \in 1..Len(x) : x[k] \in DotSymbols
NonEmptyFile(x) == x \in Names /\ path.entries[x] > 0
CorpusNames(n) == {RawName(i) : i \in 1..n} \cup {MetaName(i) : i \in 1..n}
\* the directory is a valid corpus of n articles
ValidCorpus(n) ==
    /\ n >= 1
    /\ RawFiles \cup MetaFiles = CorpusNames(n)
    /\ \A x \in CorpusNames(n) : NonEmptyFile(x)
Constructed == cm # "new"

\* C1: after CorpusManager is constructed on a valid corpus of N >= 1 articles,
\* get_articles() returns a mapping whose keys are exactly 1..N.
C1_ArticlesCoverIds ==
    \A n \in 1..Cardinality(Names) :
        (cm = "ok" /\ ValidCorpus(n)) =>
            /\ ~GetArticles(storage).none
            /\ GetArticles(storage).keys = 1..n

\* C2: on an existing, non-empty directory, construction raises
\* InconsistentDatasetError when the raw and meta counts differ, when an id of
\* 1..N lacks its raw or meta file, or when such a file is empty; so it does for
\* a valid corpus with one single file deleted.
C2_InconsistentRaised ==
    /\ (/\ Constructed /\ path.kind = "dir" /\ Names # {}
        /\ \/ Cardinality(RawFiles) # Cardinality(MetaFiles)
           \/ \E i \in 1..NRaw :
                 \/ RawName(i) \notin Names
                 \/ MetaName(i) \notin Names
                 \/ ~NonEmptyFile(RawName(i))
                 \/ ~NonEmptyFile(MetaName(i)))
       => err = "InconsistentDatasetError"
    /\ \A n \in 1..Cardinality(Names) + 1 : \A gone \in CorpusNames(n) :
         (/\ Constructed /\ path.kind = "dir"
          /\ RawFiles \cup MetaFiles = CorpusNames(n) \ {gone}
          /\ \A x \in CorpusNames(n) \ {gone} : NonEmptyFile(x))
         => err = "InconsistentDatasetError"

C2_Witness ==
    /\ cm = "raised" /\ err = "InconsistentDatasetError"
    /\ RawFiles \cup MetaFiles = CorpusNames(2) \ {MetaName(2)}
    /\ \A x \in RawFiles \cup MetaFiles : NonEmptyFile(x)

\* C3: when construction succeeds, every id of 1..N (N raw files) has its raw
\* and its meta file, both non-empty, and the directory holds no other file
\* matching *_raw.txt or *_meta.json.
C3_ValidatedLayout ==
    cm = "ok" =>
        /\ \A i \in 1..NRaw : NonEmptyFile(RawName(i)) /\ NonEmptyFile(MetaName(i))
        /\ RawFiles = {RawName(i) : i \in 1..NRaw}
        /\ MetaFiles = {MetaName(i) : i \in 1..NRaw}

C3_Witness == cm = "ok" /\ NRaw = 2 /\ Notes \in Names

\* C4 as claimed: an existing directory with no file named after the scheme
\* (<id>_raw.txt, <id>_meta.json) makes construction raise EmptyDirectoryError.
C4_EmptyWhenNoCorpusFile ==
    (Constructed /\ path.kind = "dir" /\ RawFiles \cup MetaFiles = {})
        => err = "EmptyDirectoryError"

\* C4 as amended: an existing directory none of whose entries has a '.' in its
\* name makes construction raise EmptyDirectoryError, and a directory with such
\* an entry never does.
C4_EmptyWhenNoDottedName ==
    (Constructed /\ path.kind = "dir") =>
        (err = "EmptyDirectoryError" <=> \A x \in Names : ~HasDot(x))

C4_Witness == cm = "raised" /\ Names = {Readme} /\ err = "EmptyDirectoryError"

C6_NotADirectory ==
    (Constructed /\ path.kind = "file") =>
        /\ cm = "raised"
        /\ err = "NotADirectoryError"
        /\ err \notin {"EmptyDirectoryError", "InconsistentDatasetError"}

C6_Witness == cm = "raised" /\ path.kind = "file"

\* C7: a validation failure leaves no CorpusManager instance, no registered
\* article, no run() and no output file.
C7_FailsBeforeProcessing ==
    /\ (Constructed /\ err # "none") => cm = "raised"
    /\ cm = "raised" =>
          /\ err # "none"
          /\ DOMAIN storage = {}
          /\ runs = {} /\ visited = <<>> /\ written = {}

C7_Witness == cm = "raised" /\ err = "InconsistentDatasetError" /\ NRaw = 2

\* C8: after run() of either variant on a valid corpus of N articles, the
\* articles were visited in ascending id order and every id of 1..N has one
\* CONLL-U file and one cleaned-text file.
C8_RunWritesEveryArticle ==
    \A n \in 1..Cardinality(Names) :
        (runs # {} /\ ValidCorpus(n)) =>
            /\ \A k \in 1..Len(visited) - 1 : visited[k] <= visited[k + 1]
            /\ Range(visited) = 1..n
            /\ written = [id : 1..n, kind : {"conllu", "cleaned"}]

\* C9: when the crawler's main has stored N >= 1 articles, their ids are
\* 1..N, the files are <id>_raw.txt and <id>_meta.json for id in 1..N, and the
\* directory (its texts not empty) passes the CorpusManager validation.
C9_IdsFromOne ==
    (pc = "done" /\ Len(urls) >= 1 /\ \A x \in Names : NonEmptyFile(x)) =>
        /\ Range(ids) = 1..Len(urls)
        /\ RawFiles \cup MetaFiles = CorpusNames(Len(urls))
        /\ ValidateDataset(path) = "none"

\* C10: whatever the find_articles() calls met, urls holds at most
\* get_num_articles() entries, no url twice, and news urls only.
C10_UrlsBoundedDistinctNews ==
    /\ Len(urls) <= num
    /\ \A i \in 1..Len(urls) : \A j \in 1..Len(urls) : urls[i] = urls[j] => i = j
    /\ \A i \in 1..Len(urls) : StartsWith(urls[i], NewsPrefix)

C10_Witness == calls = 2 /\ num = 2 /\ Len(urls) = 2

====
